---- MODULE Spec2Model ----
(***************************************************************************)
(* A model of tutorial/1.6.xarray-and-dask.ipynb: the notebook's cells,    *)
(* the lazy collections they build, the schedulers that materialize them   *)
(* and the NumPy-level functions the notebook defines.                     *)
(*                                                                         *)
(* Numbers.  Array elements are exact rationals <<num, den>> with den > 0  *)
(* in lowest terms; <<0, 0>> is NaN.  A correlation is a signed square     *)
(* root <<s, num, den>> standing for s * sqrt(num / den); <<0, 0, 0>> is   *)
(* NaN and <<s, 1, 0>> is s * infinity.  Floating-point rounding is not    *)
(* modelled.                                                               *)
(***************************************************************************)
EXTENDS Integers, Sequences, FiniteSets, TLC

(***************************************************************************)
(* Bounds of the model.                                                    *)
(***************************************************************************)
MaxTime == 21      \* longest 'time' axis of the chunking specification
MaxX == 26         \* longest 'x' axis of the chunking specification
MaxY == 2          \* longest 'y' axis of the chunking specification
CorrLen == 3       \* length of the time series of the correlation specification
CorrPoints == 1    \* number of (y, x) points of the correlation specification
EvalLen == 3       \* length of the time axis of the evaluation specification
EvalPoints == 1    \* number of (y, x) points of the evaluation specification
YearLen == 2       \* time steps in one year of the evaluation specification

(***************************************************************************)
(* Program constants.                                                      *)
(***************************************************************************)
TimeChunk == 10    \* chunks={'time': 10}
XYChunk == 25      \* {'x': 25, 'y': 25, ...}
WholeDim == -1     \* {'time': -1}
RollShift == 1     \* roll(time=1)
MaskLimit == 1     \* corr < 1

VARIABLES
    shape,         \* chunking: the dataset's dimension sizes
    dschunks,      \* chunking: ds's chunks per dimension, or unbound
    cpc,           \* chunking: position in the cells that (re)chunk ds
    xArr,          \* correlation: x, a DataArray [data, time]
    yArr,          \* correlation: y
    corrArr,       \* correlation: corr, one element per point, or unbound
    rollCoords,    \* correlation: does roll() also roll the coordinates
    kpc,           \* correlation: position in the correlation cell
    pc,            \* kernel: <<cell, statement>> being executed, or Idle
    front,         \* kernel: the last cell of the notebook reached so far
    ns,            \* kernel: the namespace, the value each name is bound to
    sched,         \* kernel: dask's 'scheduler' configuration value
    job,           \* kernel: the computation a blocking call is waiting for
    err,           \* kernel: the statement whose error ended the last cell, or NoErr
    tair,          \* evaluation: the file's Tair, a series per point
    echunks,       \* evaluation: the chunks along 'time' and along the points
    backend,       \* evaluation: the scheduler that runs the graphs
    store,         \* evaluation: the value of every task that has run
    out,           \* evaluation: the materialized t_range and corr
    epc            \* evaluation: the graph being materialized

chunkVars == <<shape, dschunks, cpc>>
corrVars == <<xArr, yArr, corrArr, rollCoords, kpc>>
kernelVars == <<pc, front, ns, sched, job, err>>
evalVars == <<tair, echunks, backend, store, out, epc>>
pureVars == <<chunkVars, corrVars, evalVars>>
vars == <<shape, dschunks, cpc, xArr, yArr, corrArr, rollCoords, kpc,
          pc, front, ns, sched, job, err,
          tair, echunks, backend, store, out, epc>>

Idle == <<0, 0>>
NoErr == <<0, 0>>
NoValue == [kind |-> "unbound"]
NoJob == [kind |-> "none"]

(***************************************************************************)
(* Exact arithmetic on array elements.                                     *)
(***************************************************************************)
NaN == <<0, 0>>
IsNaN(v) == v[2] = 0
Abs(i) == IF i < 0 THEN -i ELSE i
Sgn(i) == IF i < 0 THEN -1 ELSE IF i = 0 THEN 0 ELSE 1

RECURSIVE GCD(_, _)
GCD(a, b) == IF b = 0 THEN a ELSE GCD(b, a % b)

Rat(n, d) ==
    IF d = 0 THEN NaN
    ELSE LET g == GCD(Abs(n), Abs(d))
         IN  <<(Sgn(d) * n) \div g, Abs(d) \div g>>

Num(k) == <<k, 1>>
RAdd(a, b) == IF IsNaN(a) \/ IsNaN(b) THEN NaN ELSE Rat(a[1] * b[2] + b[1] * a[2], a[2] * b[2])
RSub(a, b) == IF IsNaN(a) \/ IsNaN(b) THEN NaN ELSE Rat(a[1] * b[2] - b[1] * a[2], a[2] * b[2])
RMul(a, b) == IF IsNaN(a) \/ IsNaN(b) THEN NaN ELSE Rat(a[1] * b[1], a[2] * b[2])
RLt(a, b) == ~IsNaN(a) /\ ~IsNaN(b) /\ a[1] * b[2] < b[1] * a[2]

RECURSIVE Sum(_)
Sum(s) == IF Len(s) = 0 THEN Num(0) ELSE RAdd(Sum(SubSeq(s, 1, Len(s) - 1)), s[Len(s)])

\* ndarray.mean(axis=-1) of one series: NaN propagates, an empty series gives 0/0.
Mean(s) == LET t == Sum(s) IN IF IsNaN(t) THEN NaN ELSE Rat(t[1], t[2] * Len(s))

\* ndarray.std(axis=-1) of one series, kept as the radicand: Std(s) stands
\* for sqrt(Std(s)).
Std(s) ==
    LET m == Mean(s)
    IN  Mean([i \in 1..Len(s) |-> LET d == RSub(s[i], m) IN RMul(d, d)])

CorrNaN == <<0, 0, 0>>
IsCorrNaN(c) == c[1] = 0 /\ c[3] = 0

\* c / (sqrt(r1) * sqrt(r2)) as NumPy divides: 0/0 is NaN, k/0 is +-inf.
DivByStd(c, r1, r2) ==
    LET r == RMul(r1, r2)
    IN  IF IsNaN(c) \/ IsNaN(r) THEN CorrNaN
        ELSE IF r[1] = 0 THEN (IF c[1] = 0 THEN CorrNaN ELSE <<Sgn(c[1]), 1, 0>>)
        ELSE IF c[1] = 0 THEN <<0, 0, 1>>
        ELSE LET q == Rat(c[1] * c[1] * r[2], c[2] * c[2] * r[1])
             IN  <<Sgn(c[1]), q[1], q[2]>>

\* corr < k for an integer k >= 0; a comparison with NaN is False.
CorrLt(c, k) ==
    /\ ~IsCorrNaN(c)
    /\ \/ c[1] < 0
       \/ c[1] = 0 /\ 0 < k
       \/ c[1] > 0 /\ c[3] # 0 /\ c[2] < k * k * c[3]

(***************************************************************************)
(* Chunking: xr.open_dataset(..., chunks=...) and ds.chunk(...).           *)
(***************************************************************************)
\* Blocks that forgets the shorter chunk at the end of the dimension.
BlocksFloor(n, size) ==
    IF size = WholeDim THEN <<n>>
    ELSE [i \in 1..(n \div size) |-> size]

\* The blocks one dimension of length n is cut into for a chunk size.
Blocks(n, size) ==
    IF size = WholeDim THEN <<n>>
    ELSE IF n = 0 THEN <<0>>
    ELSE [i \in 1..((n + size - 1) \div size) |->
            IF i * size <= n THEN size ELSE n - (i - 1) * size]

\* chunks={'time': 10}: a dimension the mapping does not name is one chunk.
OpenChunks(sh) ==
    [time |-> Blocks(sh.time, TimeChunk),
     y    |-> <<sh.y>>,
     x    |-> <<sh.x>>]

\* Rechunk that leaves 'time' in chunks of 10.
RechunkKeepTime(sh) ==
    [time |-> Blocks(sh.time, TimeChunk),
     y    |-> Blocks(sh.y, XYChunk),
     x    |-> Blocks(sh.x, XYChunk)]

\* ds.chunk({'x': 25, 'y': 25, 'time': -1})
Rechunk(sh) ==
    [time |-> Blocks(sh.time, WholeDim),
     y    |-> Blocks(sh.y, XYChunk),
     x    |-> Blocks(sh.x, XYChunk)]

Shapes == [time : 0..MaxTime, y : 0..MaxY, x : 0..MaxX]

Names == {"client", "ds", "t_range", "results", "x", "y", "corr"}

KernelIdle ==
    /\ pc = Idle /\ front = 0 /\ ns = [n \in Names |-> NoValue]
    /\ sched = "unset" /\ job = NoJob /\ err = NoErr

EvalIdle ==
    /\ tair = NoValue /\ echunks = NoValue /\ backend = "none"
    /\ store = NoValue /\ out = NoValue /\ epc = "off"

CorrIdle ==
    /\ xArr = NoValue /\ yArr = NoValue /\ corrArr = NoValue
    /\ rollCoords = FALSE /\ kpc = "off"

ChunkIdle == shape = NoValue /\ dschunks = NoValue /\ cpc = "off"

ChunkInit ==
    /\ shape \in Shapes
    /\ dschunks = NoValue
    /\ cpc = "open"
    /\ CorrIdle
    /\ KernelIdle
    /\ EvalIdle

\* ds = xr.open_dataset('./data/rasm.nc', chunks={'time': 10})
OpenDataset ==
    /\ cpc = "open"
    /\ dschunks' = OpenChunks(shape)
    /\ cpc' = "rechunk"
    /\ UNCHANGED <<shape, corrVars, kernelVars, evalVars>>

\* ds = ds.chunk({'x': 25, 'y': 25, 'time': -1})
ChunkDataset ==
    /\ cpc = "rechunk"
    /\ dschunks' = Rechunk(shape)
    /\ cpc' = "done"
    /\ UNCHANGED <<shape, corrVars, kernelVars, evalVars>>

ChunkNext == OpenDataset \/ ChunkDataset

SpecChunk == ChunkInit /\ [][ChunkNext]_vars

(***************************************************************************)
(* Properties of the chunking.                                             *)
(***************************************************************************)
RECURSIVE Offset(_, _)
Offset(ch, i) == IF i <= 1 THEN 0 ELSE Offset(ch, i - 1) + ch[i - 1]

\* The indexes 1..n of a dimension that chunk i of ch holds.
Extent(ch, i) == (Offset(ch, i) + 1)..(Offset(ch, i) + ch[i])

Opened == cpc = "rechunk"

\* C2: after open_dataset(chunks={'time': 10}) the 'time' chunks are
\* contiguous and disjoint and hold every time index exactly once, each
\* holds at most 10 steps and all but the last exactly 10, and 'y' and 'x',
\* which the mapping does not name, are one chunk each.
C2_TimePartition ==
    Opened =>
        LET ch == dschunks.time
        IN  /\ \A t \in 1..shape.time :
                Cardinality({i \in 1..Len(ch) : t \in Extent(ch, i)}) = 1
            /\ \A i \in 1..Len(ch) :
                /\ Extent(ch, i) \subseteq 1..shape.time
                /\ ch[i] >= 0 /\ ch[i] <= TimeChunk
                /\ i < Len(ch) => ch[i] = TimeChunk
            /\ Len(ch) >= 1
            /\ dschunks.y = <<shape.y>>
            /\ dschunks.x = <<shape.x>>

C2_Witness ==
    /\ Opened
    /\ shape.time = 2 * TimeChunk + 1
    /\ dschunks.time = <<TimeChunk, TimeChunk, 1>>
    /\ shape.x > XYChunk /\ Len(dschunks.x) = 1

(***************************************************************************)
(* The functions of the "Automatic parallelization" cells.                 *)
(***************************************************************************)
Vals == {NaN, Num(0), Num(1)}

\* bottleneck.rankdata along the last axis of one series: ties get their
\* average rank; a NaN equals nothing, and the argsort puts the NaNs last.
RankSeries(s) ==
    LET n == Len(s)
        nums == {j \in 1..n : ~IsNaN(s[j])}
        rank(i) ==
            IF IsNaN(s[i])
            THEN Num(Cardinality(nums) + Cardinality({j \in 1..n : IsNaN(s[j]) /\ j < i}) + 1)
            ELSE LET less == Cardinality({j \in nums : RLt(s[j], s[i])})
                     same == Cardinality({j \in nums : s[j] = s[i]})
                 IN  Rat(2 * less + same + 1, 2)
    IN  [i \in 1..n |-> rank(i)]

rankdata(a) == [p \in DOMAIN a |-> RankSeries(a[p])]

\* ((x - x.mean(axis=-1, keepdims=True)) * (y - y.mean(axis=-1, keepdims=True))).mean(axis=-1)
covariance_gufunc(x, y) ==
    [p \in DOMAIN x |->
        LET xmean == Mean(x[p])
            ymean == Mean(y[p])
        IN  Mean([i \in 1..Len(x[p]) |-> RMul(RSub(x[p][i], xmean), RSub(y[p][i], ymean))])]

\* covariance_gufunc(x, y) / (x.std(axis=-1) * y.std(axis=-1))
pearson_correlation_gufunc(x, y) ==
    LET cov == covariance_gufunc(x, y)
    IN  [p \in DOMAIN x |-> DivByStd(cov[p], Std(x[p]), Std(y[p]))]

\* The correlation of the values instead of their ranks.
SpearmanUnranked(x, y) == pearson_correlation_gufunc(x, y)

spearman_correlation_gufunc(x, y) ==
    LET x_ranks == rankdata(x)
        y_ranks == rankdata(y)
    IN  pearson_correlation_gufunc(x_ranks, y_ranks)

\* RollSeq that moves the series the other way.
RollSeqBack(s, shift) ==
    [i \in 1..Len(s) |-> s[((i - 1 + shift) % Len(s)) + 1]]

\* The series moved shift places towards its end, wrapping around.
RollSeq(s, shift) ==
    [i \in 1..Len(s) |-> s[((i - 1 - shift) % Len(s)) + 1]]

\* DataArray.roll(time=shift): the data, and in releases that roll the
\* coordinates too the 'time' labels, move along 'time'.
Roll(a, shift, coords) ==
    [data |-> [p \in DOMAIN a.data |-> RollSeq(a.data[p], shift)],
     time |-> IF coords THEN RollSeq(a.time, shift) ELSE a.time]

\* y['time'] = x['time']
SetTime(a, b) == [a EXCEPT !.time = b.time]

\* Where with <= for <.
CorrLe(c, k) == CorrLt(c, k) \/ (c[1] > 0 /\ c[3] # 0 /\ c[2] = k * k * c[3])
WhereLe(c, k) == [p \in DOMAIN c |-> IF CorrLe(c[p], k) THEN c[p] ELSE CorrNaN]

\* corr.where(corr < 1)
Where(c, k) == [p \in DOMAIN c |-> IF CorrLt(c[p], k) THEN c[p] ELSE CorrNaN]

Series == [1..CorrLen -> Vals]

CorrInit ==
    /\ xArr \in [data : [1..CorrPoints -> Series], time : {[i \in 1..CorrLen |-> i]}]
    /\ yArr = NoValue
    /\ corrArr = NoValue
    /\ rollCoords \in BOOLEAN
    /\ kpc = "roll"
    /\ ChunkIdle
    /\ KernelIdle
    /\ EvalIdle

\* y = ds['Tair'].roll(time=1)
RollTair ==
    /\ kpc = "roll"
    /\ yArr' = Roll(xArr, RollShift, rollCoords)
    /\ kpc' = "index"
    /\ UNCHANGED <<xArr, corrArr, rollCoords, chunkVars, kernelVars, evalVars>>

\* y['time'] = x['time']
ResetIndex ==
    /\ kpc = "index"
    /\ yArr' = SetTime(yArr, xArr)
    /\ kpc' = "corr"
    /\ UNCHANGED <<xArr, corrArr, rollCoords, chunkVars, kernelVars, evalVars>>

\* corr = spearman_correlation(x, y, 'time'); apply_ufunc joins its
\* arguments exactly and raises when their indexes differ.
Correlate ==
    /\ kpc = "corr"
    /\ IF xArr.time = yArr.time
       THEN corrArr' = spearman_correlation_gufunc(xArr.data, yArr.data) /\ kpc' = "mask"
       ELSE corrArr' = corrArr /\ kpc' = "error"
    /\ UNCHANGED <<xArr, yArr, rollCoords, chunkVars, kernelVars, evalVars>>

\* corr = corr.where(corr < 1)
MaskCorr ==
    /\ kpc = "mask"
    /\ corrArr' = Where(corrArr, MaskLimit)
    /\ kpc' = "done"
    /\ UNCHANGED <<xArr, yArr, rollCoords, chunkVars, kernelVars, evalVars>>

CorrNext == RollTair \/ ResetIndex \/ Correlate \/ MaskCorr

SpecCorr == CorrInit /\ [][CorrNext]_vars

(***************************************************************************)
(* Properties of the correlation cell.                                     *)
(***************************************************************************)
Rolled == kpc \in {"corr", "mask", "done"}

\* C8: y is x lagged by one step on x's index: y at position t is x at
\* position (t - 1) mod n, counting positions from 0, y's time coordinate is
\* x's at every position, and no statement of the cell changes x.
C8_Lag ==
    /\ [](Rolled =>
            /\ \A p \in DOMAIN xArr.data : \A t \in 0..(CorrLen - 1) :
                   yArr.data[p][t + 1] = xArr.data[p][((t - 1) % CorrLen) + 1]
            /\ \A t \in 1..CorrLen : yArr.time[t] = xArr.time[t])
    /\ [][xArr' = xArr]_vars

C8_Witness ==
    /\ kpc = "done"
    /\ xArr.data[1] = <<Num(0), Num(1), NaN>>
    /\ yArr.data[1] = <<NaN, Num(0), Num(1)>>
    /\ rollCoords

\* The textbook covariance E[ab] - E[a]E[b] of two series.
CovRef(a, b) ==
    RSub(Mean([i \in 1..Len(a) |-> RMul(a[i], b[i])]), RMul(Mean(a), Mean(b)))

\* C6: spearman_correlation_gufunc(x, y) is the Pearson correlation of the
\* ranks along the last axis, the covariance of the ranks over the product of
\* their standard deviations, and has one element per point: the last axis
\* is gone and the other is kept.
C6_Spearman ==
    kpc = "mask" =>
        /\ DOMAIN corrArr = DOMAIN xArr.data
        /\ \A p \in DOMAIN corrArr :
             LET rx == RankSeries(xArr.data[p])
                 ry == RankSeries(yArr.data[p])
             IN  /\ corrArr[p] = DivByStd(CovRef(rx, ry), CovRef(rx, rx), CovRef(ry, ry))

C6_Witness ==
    /\ kpc = "mask"
    /\ xArr.data[1] = <<Num(0), Num(1), NaN>>
    /\ corrArr = <<<<-1, 1, 4>>>>

IsConstant(s) == \A i \in 1..Len(s) : ~IsNaN(s[i]) /\ s[i] = s[1]

CorrGe(c, k) == c[1] > 0 /\ (c[3] = 0 \/ c[2] >= k * k * c[3])

\* C9: after corr = corr.where(corr < 1) every element is missing or below
\* 1: an element that was NaN (a zero-variance series divides 0 by 0) or at
\* least 1 is missing, an element below 1 keeps its value.
C9_Masked ==
    kpc = "done" =>
        \A p \in DOMAIN corrArr :
            LET before == spearman_correlation_gufunc(<<xArr.data[p]>>, <<yArr.data[p]>>)[1]
                after == corrArr[p]
                gone == IsCorrNaN(before) \/ CorrGe(before, MaskLimit)
            IN  /\ IsCorrNaN(after) \/ CorrLt(after, MaskLimit)
                /\ IsConstant(xArr.data[p]) => IsCorrNaN(before)
                /\ gone => IsCorrNaN(after)
                /\ ~gone => after = before

C9_Witness ==
    /\ kpc = "done"
    /\ xArr.data[1] = <<NaN, NaN, NaN>>
    /\ spearman_correlation_gufunc(xArr.data, yArr.data)[1] = <<1, 1, 1>>
    /\ IsCorrNaN(corrArr[1])

(***************************************************************************)
(* The notebook in a kernel.  A cell runs statement by statement; the user *)
(* works down the notebook and may go back to run an earlier cell again.   *)
(* Imports and function definitions always succeed; a library call may     *)
(* raise, and a statement that reads an unbound name does raise.           *)
(***************************************************************************)
KShape == [time |-> MaxTime, y |-> MaxY, x |-> MaxX]

\* The tasks of a collection's graph, one tuple <<what, i, j, k>> per task
\* and (time, y, x) block: an array reads its blocks; t_range reduces each
\* block over its years ("part") and combines the parts of the blocks that
\* differ only in their time chunk ("agg"); corr applies the gufunc to each
\* block.
BlocksOf(ch, what) ==
    {<<what, i, j, k>> : i \in 1..Len(ch.time), j \in 1..Len(ch.y), k \in 1..Len(ch.x)}

Tasks(kind, ch) ==
    CASE kind = "t_range" ->
            BlocksOf(ch, "part") \cup {<<"agg", 0, j, k>> : j \in 1..Len(ch.y), k \in 1..Len(ch.x)}
      [] kind = "corr" -> BlocksOf(ch, "block")
      [] OTHER -> BlocksOf(ch, "read")

Deps(t, ch) ==
    IF t[1] = "agg" THEN {<<"part", i, t[3], t[4]>> : i \in 1..Len(ch.time)} ELSE {}

\* A collection that is computed as it is built, as NumPy-backed ones are.
Eager(kind, ch) ==
    [kind |-> kind, chunks |-> ch, backend |-> "lazy",
     ran |-> [t \in Tasks(kind, ch) |-> 1]]

\* A collection whose graph is built and of which no task has run.
Lazy(kind, ch) ==
    [kind |-> kind, chunks |-> ch, backend |-> "lazy",
     ran |-> [t \in Tasks(kind, ch) |-> 0]]

Submitted(c, scheduler) == [c EXCEPT !.backend = scheduler]

AllRan(c) == \A t \in DOMAIN c.ran : c.ran[t] >= 1

\* Ready that lets a task that has run once run again.
ReadyAgain(c, t) == c.ran[t] <= 1 /\ \A d \in Deps(t, c.chunks) : c.ran[d] >= 1

\* A scheduler runs a task when its inputs are there and it has not run.
Ready(c, t) == c.ran[t] = 0 /\ \A d \in Deps(t, c.chunks) : c.ran[d] >= 1

Bound(n) == ns[n].kind # "unbound"

\* GetScheduler that prefers the client the kernel holds to the configuration.
GetSchedulerClientFirst(conf) ==
    IF Bound("client") THEN "distributed"
    ELSE IF conf = "processes" THEN "processes" ELSE "threads"

\* dask.base.get_scheduler: the configured scheduler, else the collection's
\* default, which for arrays is the thread pool.
GetScheduler(conf) ==
    CASE conf = "processes" -> "processes"
      [] conf = "dask.distributed" -> "distributed"
      [] OTHER -> "threads"

NCells == 13
LastStmt == <<1, 3, 2, 1, 1, 1, 2, 1, 1, 1, 7, 1, 4>>

\* The names a statement reads.
Needs(at) ==
    CASE at = <<2, 3>> -> {"client"}
      [] at \in {<<3, 2>>, <<4, 1>>, <<5, 1>>, <<10, 1>>, <<11, 1>>, <<11, 2>>, <<11, 3>>} -> {"ds"}
      [] at \in {<<6, 1>>, <<7, 1>>} -> {"t_range"}
      [] at \in {<<7, 2>>, <<8, 1>>} -> {"results"}
      [] at = <<11, 4>> -> {"x", "y"}
      [] at = <<11, 5>> -> {"x", "y"}
      [] at \in {<<11, 6>>, <<11, 7>>, <<12, 1>>} -> {"corr"}
      [] OTHER -> {}

NamesBound(at) == \A n \in Needs(at) : Bound(n)

ImportStmts == {<<1, 1>>, <<2, 1>>, <<9, 1>>, <<13, 1>>, <<13, 3>>}
DisplayStmts == {<<2, 3>>, <<3, 2>>, <<4, 1>>, <<7, 2>>, <<8, 1>>, <<10, 1>>, <<11, 7>>}

After(at) == IF at[2] = LastStmt[at[1]] THEN Idle ELSE <<at[1], at[2] + 1>>

At(c, k) == pc = <<c, k>> /\ NamesBound(pc)

KernelInit == KernelIdle /\ ChunkIdle /\ CorrIdle /\ EvalIdle

\* The user runs a cell: the next one of the notebook or an earlier one.
StartCell(c) ==
    /\ pc = Idle
    /\ c <= front + 1
    /\ pc' = <<c, 1>>
    /\ front' = IF c > front THEN c ELSE front
    /\ err' = NoErr
    /\ UNCHANGED <<ns, sched, job, pureVars>>

\* import ..., from ... import ..., def ...
Import ==
    /\ pc \in ImportStmts
    /\ pc' = After(pc)
    /\ UNCHANGED <<front, ns, sched, job, err, pureVars>>

\* An expression statement that shows a value: the repr of a dask-backed
\* object and the progress bar read no data and run no task.
Display ==
    /\ pc \in DisplayStmts
    /\ NamesBound(pc)
    /\ pc' = After(pc)
    /\ UNCHANGED <<front, ns, sched, job, err, pureVars>>

\* client = Client(): the new client registers itself as the scheduler.
NewClient ==
    /\ pc \in {<<2, 2>>, <<13, 4>>}
    /\ ns' = [ns EXCEPT !["client"] = [kind |-> "client", cell |-> pc[1]]]
    /\ sched' = "dask.distributed"
    /\ pc' = After(pc)
    /\ UNCHANGED <<front, job, err, pureVars>>

\* ds = xr.open_dataset('./data/rasm.nc', chunks={'time': 10})
OpenStmt ==
    /\ At(3, 1)
    /\ ns' = [ns EXCEPT !["ds"] = Lazy("array", OpenChunks(KShape))]
    /\ pc' = After(pc)
    /\ UNCHANGED <<front, sched, job, err, pureVars>>

\* t_range = (ds['Tair'].resample(time='AS').max('time') - ....min('time')).mean('time')
TRangeStmt ==
    /\ At(5, 1)
    /\ ns' = [ns EXCEPT !["t_range"] = Lazy("t_range", ns["ds"].chunks)]
    /\ pc' = After(pc)
    /\ UNCHANGED <<front, sched, job, err, pureVars>>

\* t_range.data.visualize()
Visualize ==
    /\ At(6, 1)
    /\ pc' = After(pc)
    /\ UNCHANGED <<front, ns, sched, job, err, pureVars>>

\* results = t_range.persist() on the distributed scheduler: the graph is
\* submitted and the call returns; tasks the cluster already holds under
\* the same keys are not submitted again.
PersistSubmit ==
    /\ At(7, 1)
    /\ GetScheduler(sched) = "distributed"
    /\ LET new == Submitted(ns["t_range"], "distributed")
           held == ns["results"]
       IN  ns' = [ns EXCEPT !["results"] =
                    IF held.kind = "t_range" /\ held.backend = "distributed"
                       /\ held.chunks = new.chunks
                    THEN held ELSE new]
    /\ pc' = After(pc)
    /\ UNCHANGED <<front, sched, job, err, pureVars>>

\* results = t_range.persist() on a local scheduler: the call computes.
PersistStart ==
    /\ At(7, 1)
    /\ GetScheduler(sched) # "distributed"
    /\ job = NoJob
    /\ job' = Submitted(ns["t_range"], GetScheduler(sched))
    /\ UNCHANGED <<pc, front, ns, sched, err, pureVars>>

PersistFinish ==
    /\ At(7, 1)
    /\ job # NoJob /\ AllRan(job)
    /\ ns' = [ns EXCEPT !["results"] = job]
    /\ job' = NoJob
    /\ pc' = After(pc)
    /\ UNCHANGED <<front, sched, err, pureVars>>

\* ds = ds.chunk({'x': 25, 'y': 25, 'time': -1})
ChunkStmt ==
    /\ At(11, 1)
    /\ ns' = [ns EXCEPT !["ds"] = Lazy("array", Rechunk(KShape))]
    /\ pc' = After(pc)
    /\ UNCHANGED <<front, sched, job, err, pureVars>>

\* x = ds['Tair']
XStmt ==
    /\ At(11, 2)
    /\ ns' = [ns EXCEPT !["x"] = ns["ds"]]
    /\ pc' = After(pc)
    /\ UNCHANGED <<front, sched, job, err, pureVars>>

\* y = ds['Tair'].roll(time=1)
YStmt ==
    /\ At(11, 3)
    /\ ns' = [ns EXCEPT !["y"] = Lazy("array", ns["ds"].chunks)]
    /\ pc' = After(pc)
    /\ UNCHANGED <<front, sched, job, err, pureVars>>

\* y['time'] = x['time']
IndexStmt ==
    /\ At(11, 4)
    /\ pc' = After(pc)
    /\ UNCHANGED <<front, ns, sched, job, err, pureVars>>

\* apply_ufunc(dask='parallelized') refuses a core dimension in several chunks.
CoreDimWhole(c) == Len(c.chunks.time) = 1

\* corr = spearman_correlation(x, y, 'time')
SpearmanStmt ==
    /\ At(11, 5)
    /\ CoreDimWhole(ns["x"]) /\ CoreDimWhole(ns["y"])
    /\ ns' = [ns EXCEPT !["corr"] = Lazy("corr", ns["x"].chunks)]
    /\ pc' = After(pc)
    /\ UNCHANGED <<front, sched, job, err, pureVars>>

\* corr = corr.where(corr < 1)
WhereStmt ==
    /\ At(11, 6)
    /\ ns' = [ns EXCEPT !["corr"] = Lazy("corr", ns["corr"].chunks)]
    /\ pc' = After(pc)
    /\ UNCHANGED <<front, sched, job, err, pureVars>>

\* corr.plot() computes corr on the selected scheduler and draws it.
PlotStart ==
    /\ At(12, 1)
    /\ job = NoJob
    /\ job' = Submitted(ns["corr"], GetScheduler(sched))
    /\ UNCHANGED <<pc, front, ns, sched, err, pureVars>>

PlotFinish ==
    /\ At(12, 1)
    /\ job # NoJob /\ AllRan(job)
    /\ job' = NoJob
    /\ pc' = After(pc)
    /\ UNCHANGED <<front, ns, sched, err, pureVars>>

\* dask.config.set(scheduler='processes')
ConfigSet ==
    /\ At(13, 2)
    /\ sched' = "processes"
    /\ pc' = After(pc)
    /\ UNCHANGED <<front, ns, job, err, pureVars>>

\* The scheduler a blocking call waits for runs one task.
RunTask ==
    /\ job # NoJob
    /\ \E t \in DOMAIN job.ran :
        /\ Ready(job, t)
        /\ job' = [job EXCEPT !.ran[t] = @ + 1]
    /\ UNCHANGED <<pc, front, ns, sched, err, pureVars>>

\* The cluster runs one task of the persisted collection, whatever the
\* kernel is doing.
Background ==
    /\ Bound("results")
    /\ ns["results"].backend = "distributed"
    /\ \E t \in DOMAIN ns["results"].ran :
        /\ Ready(ns["results"], t)
        /\ ns' = [ns EXCEPT !["results"].ran[t] = @ + 1]
    /\ UNCHANGED <<pc, front, sched, job, err, pureVars>>

\* Raise in a cell that catches the error and goes on.
RaiseCaught ==
    /\ pc # Idle
    /\ pc \notin ImportStmts
    /\ pc \notin DisplayStmts \/ ~NamesBound(pc)
    /\ pc' = After(pc)
    /\ err' = pc
    /\ job' = NoJob
    /\ UNCHANGED <<front, ns, sched, pureVars>>

\* No cell catches anything: the error ends the cell where it is raised.
Raise ==
    /\ pc # Idle
    /\ pc \notin ImportStmts
    /\ pc \notin DisplayStmts \/ ~NamesBound(pc)
    /\ pc' = Idle
    /\ err' = pc
    /\ job' = NoJob
    /\ UNCHANGED <<front, ns, sched, pureVars>>

Next ==
    \/ \E c \in 1..NCells : StartCell(c)
    \/ Import \/ Display \/ NewClient \/ OpenStmt \/ TRangeStmt \/ Visualize
    \/ PersistSubmit \/ PersistStart \/ PersistFinish
    \/ ChunkStmt \/ XStmt \/ YStmt \/ IndexStmt \/ SpearmanStmt \/ WhereStmt
    \/ PlotStart \/ PlotFinish \/ ConfigSet
    \/ RunTask \/ Background \/ Raise

Spec == KernelInit /\ [][Next]_vars

\* The cluster's workers keep running the tasks they were given.
FairSpec == Spec /\ WF_vars(Background)

(***************************************************************************)
(* Properties of the notebook in the kernel.                               *)
(***************************************************************************)
NoTaskRan(c) == \A t \in DOMAIN c.ran : c.ran[t] = 0
LazyNames == {"ds", "t_range", "x", "y", "corr"}
Materializing == {<<7, 1>>, <<12, 1>>}

\* C1: the cells that open the dataset and build t_range and corr only
\* build graphs: no task of a collection they bind has run, a task runs
\* only for a materialization (persist, plot), and t_range.data.visualize()
\* runs none.
C1_Lazy ==
    /\ [](\A n \in LazyNames : Bound(n) => ns[n].backend = "lazy" /\ NoTaskRan(ns[n]))
    /\ [](job # NoJob => pc \in Materializing)
    /\ [][(pc \notin Materializing /\ pc' \notin Materializing /\ ns'["results"] # ns["results"])
            => (ns["results"].backend = "distributed" /\ job' = job)]_vars
    /\ [][(pc = <<6, 1>> /\ pc' = Idle /\ err' = NoErr) => (ns' = ns /\ job' = job)]_vars

C1_Witness ==
    /\ pc = <<12, 1>> /\ job = NoJob
    /\ \A n \in LazyNames : Bound(n) /\ NoTaskRan(ns[n])
    /\ ~Bound("results")

\* C3: once dask.config.set(scheduler='processes') has run, and until a new
\* client is created, every materialization runs on the process pool, not
\* on the distributed client of the notebook's start.
C3_Processes ==
    /\ [][(pc = <<13, 2>> /\ pc' = <<13, 3>>) => sched' = "processes"]_vars
    /\ [][(sched = "processes" /\ sched' # "processes") => pc \in {<<2, 2>>, <<13, 4>>}]_vars
    /\ [](job # NoJob /\ sched = "processes" => job.backend = "processes")
    /\ [][(sched = "processes" /\ pc = <<7, 1>> /\ pc' = <<7, 2>>)
            => ns'["results"].backend = "processes"]_vars

C3_Witness ==
    /\ sched = "processes"
    /\ Bound("client") /\ ns["client"].cell = 2
    /\ pc = <<7, 2>>
    /\ ns["results"].backend = "processes" /\ AllRan(ns["results"])

Graphs == {OpenChunks(KShape), Rechunk(KShape)}

C5_Errors ==
    /\ [][(err = NoErr /\ err' # NoErr)
            => (err' = pc /\ pc' = Idle /\ ns' = ns /\ sched' = sched /\ job' = NoJob)]_vars
    /\ [](err # NoErr => pc = Idle)
    /\ [][(err # NoErr /\ pc' # Idle) => (pc'[2] = 1 /\ err' = NoErr)]_vars

C5_Witness ==
    /\ err = <<11, 5>>
    /\ pc = Idle
    /\ Bound("ds") /\ ns["ds"].chunks = Rechunk(KShape)
    /\ Bound("x") /\ Bound("y") /\ ~Bound("corr")
    /\ Bound("results")

WholeTime(ch) == Len(ch.time) = 1 /\ Extent(ch.time, 1) = 1..KShape.time

Within(blocks, n, size) ==
    /\ \A i \in 1..Len(blocks) : blocks[i] <= size
    /\ Offset(blocks, Len(blocks) + 1) = n

\* C7: in the correlation cell ds.chunk({'x': 25, 'y': 25, 'time': -1}) runs
\* first: from then on 'time' is one chunk and the 'x' and 'y' chunks hold at
\* most 25 elements, so every block the gufunc is given holds the whole
\* time series of its points.
C7_Rechunked ==
    /\ (pc[1] = 11 /\ pc[2] >= 2) =>
          /\ Bound("ds")
          /\ WholeTime(ns["ds"].chunks)
          /\ Within(ns["ds"].chunks.x, KShape.x, XYChunk)
          /\ Within(ns["ds"].chunks.y, KShape.y, XYChunk)
    /\ Bound("corr") => WholeTime(ns["corr"].chunks) /\ ns["corr"].chunks = Rechunk(KShape)
    /\ (job # NoJob /\ job.kind = "corr") =>
          \A t \in DOMAIN job.ran : t[2] = 1 /\ WholeTime(job.chunks)

C7_Witness ==
    /\ job # NoJob /\ job.kind = "corr"
    /\ Len(job.chunks.x) = 2
    /\ AllRan(job)

(***************************************************************************)
(* Evaluation: the values t_range and corr have when their graphs are run, *)
(* chunk by chunk, by one of dask's four schedulers.  t_range is built on  *)
(* the dataset as open_dataset chunks it, along 'time' only; corr on the   *)
(* dataset as ds.chunk rechunks it, along its points and whole along       *)
(* 'time'.  The chunk sizes range over all that the small axes allow.      *)
(***************************************************************************)
Backends == {"threads", "processes", "synchronous", "distributed"}

\* The file begins one step before a year does.
YearOf(t) == (t \div YearLen) + 1
Years == 1..YearOf(EvalLen)

Numbers(S) == {v \in S : ~IsNaN(v)}

\* max and min that skip NaN (resample(...).max('time') on floats); NaN
\* when nothing is left.
NanMax(S) ==
    IF Numbers(S) = {} THEN NaN
    ELSE CHOOSE v \in Numbers(S) : \A w \in Numbers(S) : ~RLt(v, w)

NanMin(S) ==
    IF Numbers(S) = {} THEN NaN
    ELSE CHOOSE v \in Numbers(S) : \A w \in Numbers(S) : ~RLt(w, v)

\* mean('time') skipping NaN, on a whole series.
NanMean(s) == Mean(SelectSeq(s, LAMBDA v : ~IsNaN(v)))

\* mean('time') skipping NaN on chunks: every chunk gives the sum and the
\* count of its numbers, the aggregation divides the sums by the counts.
MeanChunk(v) == IF IsNaN(v) THEN <<Num(0), 0>> ELSE <<v, 1>>

MeanAgg(parts) ==
    LET total == Sum([i \in 1..Len(parts) |-> parts[i][1]])
        count == Sum([i \in 1..Len(parts) |-> Num(parts[i][2])])[1]
    IN  Rat(total[1], total[2] * count)

\* The expression of t_range on the whole array in one pass.
TRangeEager(a) ==
    [p \in DOMAIN a |->
        LET range(yr) ==
                LET inYear == {a[p][t] : t \in {u \in 1..Len(a[p]) : YearOf(u) = yr}}
                IN  RSub(NanMax(inYear), NanMin(inYear))
        IN  NanMean([yr \in Years |-> range(yr)])]

\* The expression of corr on the whole array in one pass.
CorrEager(a) ==
    Where(spearman_correlation_gufunc(a, [p \in DOMAIN a |-> RollSeq(a[p], RollShift)]), MaskLimit)

\* The graph of t_range: each time chunk gives, per point and year, the
\* max and min of its steps of that year ("part"); "agg" combines the
\* parts, subtracts and averages over the years.
\* The graph of corr: one "block" per chunk of points.
ETasks(graph, ch) ==
    IF graph = "t_range"
    THEN {<<"part", i>> : i \in 1..Len(ch.time)} \cup {<<"agg", 0>>}
    ELSE {<<"block", k>> : k \in 1..Len(ch.points)}

EDeps(t, ch) == IF t[1] = "agg" THEN {<<"part", i>> : i \in 1..Len(ch.time)} ELSE {}

PartValue(a, ch, i) ==
    [p \in DOMAIN a |->
        [yr \in Years |->
            LET mine == {a[p][t] : t \in {u \in Extent(ch.time, i) : YearOf(u) = yr}}
            IN  <<NanMax(mine), NanMin(mine)>>]]

\* CombineMax that keeps the last chunk's maximum only.
CombineMaxLast(parts) == parts[Len(parts)][1]

\* The aggregation of the chunks' partial results.
CombineMax(parts) == NanMax({parts[i][1] : i \in DOMAIN parts})
CombineMin(parts) == NanMin({parts[i][2] : i \in DOMAIN parts})

AggValue(a, ch, st) ==
    [p \in DOMAIN a |->
        LET range(yr) ==
                LET parts == [i \in 1..Len(ch.time) |-> st[<<"part", i>>][p][yr]]
                IN  RSub(CombineMax(parts), CombineMin(parts))
        IN  MeanAgg([yr \in Years |-> MeanChunk(range(yr))])]

\* apply_ufunc hands the gufunc one block: the series of the block's points.
BlockValue(a, ch, k) ==
    LET first == Offset(ch.points, k)
        xblock == [q \in 1..ch.points[k] |-> a[first + q]]
        yblock == [q \in 1..ch.points[k] |-> RollSeq(a[first + q], RollShift)]
    IN  Where(spearman_correlation_gufunc(xblock, yblock), MaskLimit)

TaskValue(t, a, ch, st) ==
    CASE t[1] = "part" -> PartValue(a, ch, t[2])
      [] t[1] = "agg" -> AggValue(a, ch, st)
      [] t[1] = "block" -> BlockValue(a, ch, t[2])

\* The blocks of the result put together along the points.
RECURSIVE Concat(_, _)
Concat(st, n) == IF n = 0 THEN <<>> ELSE Concat(st, n - 1) \o st[<<"block", n>>]

EReady(graph) ==
    {t \in ETasks(graph, echunks) \ DOMAIN store : EDeps(t, echunks) \subseteq DOMAIN store}

\* The synchronous scheduler runs the tasks one after the other in a fixed
\* order; a pool or a cluster runs any task that is ready.
MayRun(t, ready) ==
    backend # "synchronous" \/ \A u \in ready : t[2] <= u[2]

NoStore == [t \in {} |-> NoValue]

\* The series a point next to one with series s may hold: all NaN, a masked
\* point, or s some steps later in time.
Neighbours(s) ==
    {[t \in 1..EvalLen |-> NaN]} \cup {RollSeq(s, k) : k \in 0..(EvalLen - 1)}

\* The file's Tair: any series at the first point.
EvalInit ==
    /\ \E s \in [1..EvalLen -> Vals] :
         tair \in {a \in [1..EvalPoints -> Neighbours(s)] : a[1] = s}
    /\ \E tsize \in 1..EvalLen :
         echunks = [time |-> Blocks(EvalLen, tsize), points |-> <<EvalPoints>>]
    /\ backend \in Backends
    /\ store = NoStore
    /\ out = [t_range |-> NoValue, corr |-> NoValue]
    /\ epc = "t_range"
    /\ KernelIdle /\ ChunkIdle /\ CorrIdle

\* A worker of the scheduler runs one task.
RunEvalTask ==
    /\ epc \in {"t_range", "corr"}
    /\ \E t \in EReady(epc) :
        /\ MayRun(t, EReady(epc))
        /\ store' = (t :> TaskValue(t, tair, echunks, store)) @@ store
    /\ UNCHANGED <<tair, echunks, backend, out, epc, chunkVars, corrVars, kernelVars>>

\* results = t_range.persist() has everything in memory.
GatherTRange ==
    /\ epc = "t_range"
    /\ ETasks("t_range", echunks) \subseteq DOMAIN store
    /\ out' = [out EXCEPT !.t_range = store[<<"agg", 0>>]]
    /\ store' = NoStore
    /\ epc' = "rechunk"
    /\ UNCHANGED <<tair, echunks, backend, chunkVars, corrVars, kernelVars>>

\* ds = ds.chunk({'x': 25, 'y': 25, 'time': -1})
EvalRechunk ==
    /\ epc = "rechunk"
    /\ \E psize \in 1..EvalPoints :
         echunks' = [time |-> Blocks(EvalLen, WholeDim), points |-> Blocks(EvalPoints, psize)]
    /\ epc' = "corr"
    /\ UNCHANGED <<tair, backend, store, out, chunkVars, corrVars, kernelVars>>

\* corr.plot() has the computed corr.
GatherCorr ==
    /\ epc = "corr"
    /\ ETasks("corr", echunks) \subseteq DOMAIN store
    /\ out' = [out EXCEPT !.corr = Concat(store, Len(echunks.points))]
    /\ store' = NoStore
    /\ epc' = "done"
    /\ UNCHANGED <<tair, echunks, backend, chunkVars, corrVars, kernelVars>>

EvalNext == RunEvalTask \/ GatherTRange \/ EvalRechunk \/ GatherCorr

SpecEval == EvalInit /\ [][EvalNext]_vars

====
